---- MODULE Spec2Model ----
(***************************************************************************)
(* Model of src/main.cpp: the chunked two-phase parallel inclusive scan    *)
(* (parallelInclusiveScan) and the thread-count sweep of experiment3.      *)
(* Vectors are functions over 0..n-1, as the code indexes them.            *)
(* The body of a worker lambda is one step; the index range of result it   *)
(* accesses and the carry / prefix slot it touches are recorded (acc1,     *)
(* acc3, carryAt, offAt), and overlap between workers is checked on them.  *)
(* The main thread's spawn loops, join loops, clear and prefix step are    *)
(* separate steps that interleave with the workers.                        *)
(***************************************************************************)
EXTENDS Integers, Sequences, FiniteSets, TLC

(***************************************************************************)
(* Bounds of the model.                                                    *)
(***************************************************************************)
\* longest input enumerated exhaustively (all such inputs take the fallback)
MaxSmallLen == 2
\* most workers that are spawned and have not yet finished at one time
MaxLive == 2
\* measured times are drawn from 1..MaxTime
MaxTime == 2
\* elements summed per stride when a scan loop is unfolded
Stride == 32
\* the chunk arithmetic is run on lengths 1000..1000+MaxExtra
MaxExtra == 40
\* and on thread counts 2..MaxT
MaxT == 40
\* hardware_concurrency() reports 0..MaxHw when the end of the sweep is run
MaxHw == 9

(***************************************************************************)
(* Program constants.                                                      *)
(***************************************************************************)
\* main.cpp:41   n < 1000
Threshold == 1000
\* main.cpp:140  min(32, ...)
SweepCap == 32
\* main.cpp:140  hwThreads * 4
SweepMul == 4
\* main.cpp:151  numeric_limits<double>::max(), above every measured time
DblMax == 1000000
\* main.cpp:19  uniform_int_distribution<int> dis(1, 100)
RandLo == 1
RandHi == 100
\* main.cpp:204  the largest benchmarked size
MaxSize == 10000000
\* the largest value of the int elements of vector<int>
IntMax == 2147483647

(***************************************************************************)
(* Inputs the model is run on.                                             *)
(***************************************************************************)
SmallVals == {-1, 2}
\* lengths at and above the threshold; 1024 with 33 threads leaves chunk 32 empty
BigLens == {1000, 1024}
\* thread counts tried by a direct call
ThreadCounts == {-1, 0, 1, 2, 3, 33}
\* hardware_concurrency() values tried by the sweep
HwChoices == {0, 1}

Size(v) == Cardinality(DOMAIN v)

Zeros(len) == [i \in 0..(len - 1) |-> 0]

SmallInputs == UNION {[0..(len - 1) -> SmallVals] : len \in 0..MaxSmallLen}

In7 == [i \in 0..6 |-> i + 1]

BigInput(len) == [i \in 0..(len - 1) |-> ((i * i + 3 * i) % 7) - 2]

Inputs == SmallInputs \cup {In7} \cup {BigInput(len) : len \in BigLens}

\* the direct calls: the widest thread count meets every short input, and of
\* the long ones the length that leaves its last chunk empty
Calls == {c \in Inputs \X ThreadCounts :
            c[2] > 3 => (Size(c[1]) < Threshold \/ Size(c[1]) = 1024)}

\* the data experiment3 is run on
SweepInputs == {In7, BigInput(1000)}

Min2(a, b) == IF b < a THEN b ELSE a

(***************************************************************************)
(* State of one parallelInclusiveScan invocation.                          *)
(***************************************************************************)
VARIABLES
    input,       \* const vector<T>& input
    numThreads,  \* int numThreads
    pc,          \* position of the calling thread inside the function
    result,      \* vector<T> result(n)
    chunkSize,   \* size_t chunkSize
    lastValues,  \* vector<T> lastValues(numThreads)
    prefixSums,  \* vector<T> prefixSums(numThreads)
    threads,     \* vector<thread> threads: handles [t, joined] in emplace order
    si,          \* loop variable t of the spawning loop in progress
    ji,          \* position of the join loop in threads (1-based)
    work1,       \* body of phase-1 lambda t: "none", "run" (spawned), "fin"
    work3,       \* body of phase-3 lambda t: "none", "run" (spawned), "fin"
    input0,      \* the input as it was at call time
    acc1,        \* [start, end) of result that phase-1 lambda t accessed
    acc3,        \* [start, end) of result that phase-3 lambda t accessed
    carryAt,     \* slot of lastValues that phase-1 lambda t wrote, -1 if none
    offAt,       \* slot of prefixSums that phase-3 lambda t read, -1 if none
    divs,        \* divisors used by the chunk-size division so far
    \* experiment3
    spc,         \* position inside experiment3 ("off": no sweep is running)
    data,        \* const vector<int>& data
    hwThreads,   \* thread::hardware_concurrency()
    maxK,        \* int maxK
    k,           \* loop variable k
    baseTime,    \* double baseTime
    bestTime,    \* double bestTime
    bestK,       \* int bestK
    results,     \* vector<pair<int, double>> results
    note,        \* whether the time-growth note (lines 185-187) was printed
    calls,       \* the thread counts parallelInclusiveScan was called with, in order
    baseRuns     \* how often the sequential baseline was measured

scanVars == <<input, numThreads, pc, result, chunkSize, lastValues, prefixSums,
              threads, si, ji, work1, work3, input0, acc1, acc3, carryAt,
              offAt, divs>>

sweepVars == <<spc, data, hwThreads, maxK, k, baseTime, bestTime, bestK, results,
               note, calls, baseRuns>>

vars == <<scanVars, sweepVars>>

\* std::inclusive_scan(src + first, src + last, dst + d): a running sum
\* written to dst[d], dst[d+1], ...; src is only read.  ScanRun is the loop
\* over one stride of at most Stride elements, ScanLoop chains the strides
\* (the sum carried on is the element written last).
RECURSIVE ScanRun(_, _, _, _, _, _)
ScanRun(src, i, last, dst, d, sum) ==
    IF i >= last THEN dst
    ELSE LET s == sum + src[i]
         IN  ScanRun(src, i + 1, last, [dst EXCEPT ![d] = s], d + 1, s)

RECURSIVE ScanLoop(_, _, _, _, _, _)
ScanLoop(src, i, last, dst, d, sum) ==
    IF i >= last \/ d \notin DOMAIN dst THEN dst
    ELSE LET stop == Min2(i + Stride, last)
             part == ScanRun(src, i, stop, dst, d, sum)
             dn == d + (stop - i)
         IN  ScanLoop(src, stop, last, part, dn, part[dn - 1])

\* variant: each output element leaves out its own input element
StdExclusiveScan(src, first, last, dst, d) ==
    LET inc == ScanLoop(src, first, last, dst, d, 0)
    IN  [j \in DOMAIN inc |->
            IF d <= j /\ j < d + (last - first)
            THEN inc[j] - src[first + (j - d)]
            ELSE inc[j]]

StdInclusiveScan(src, first, last, dst, d) == ScanLoop(src, first, last, dst, d, 0)

\* variants of the fallback test: && for ||; only the empty input; fewer
\* elements than threads
FallbackAnd(T, n) == T <= 1 /\ n < Threshold
FallbackEmpty(T, n) == T <= 1 \/ n < 1
FallbackFew(T, n) == T <= 1 \/ n < T

\* main.cpp:41  numThreads <= 1 || n < 1000
Fallback(T, n) == T <= 1 \/ n < Threshold

\* variant: the division rounds down
ChunkSizeFloor(n, T) == n \div T

\* main.cpp:46  (n + numThreads - 1) / numThreads
ChunkSizeOf(n, T) == (n + T - 1) \div T

\* main.cpp:52,75  start = t * chunkSize
StartOf(t, cs) == t * cs

\* variant: a chunk one element too long
EndOfLong(start, cs, n) == Min2(start + cs + 1, n)

\* main.cpp:53,76  end = min(start + chunkSize, n)
EndOf(start, cs, n) == Min2(start + cs, n)

\* variant: > for >=
SkippedStrict(start, n) == start > n

\* main.cpp:55,78  if (start >= n) return;
Skipped(start, n) == start >= n

\* variant: the carry stored one slot low
CarrySlotLow(t) == IF t = 0 THEN 0 ELSE t - 1

\* main.cpp:60  lastValues[t]
CarrySlot(t) == t

\* variant: the chunk's own prefix used as its offset
OffsetSlotOwn(t) == t

\* main.cpp:80  prefixSums[t - 1]
OffsetSlot(t) == t - 1

\* variant: the chunk scanned in place
ScanDestInPlace == "input"

\* main.cpp:58  the scan of a chunk is written through result.begin() + start
ScanDest == "result"

\* variants: the wait is missing; the wait never ends
JoinReturnsAtOnce(w) == TRUE
JoinReturnsNever(w) == FALSE

\* main.cpp:65,88  th.join() returns once the thread's lambda has finished
JoinReturns(w) == w = "fin"

\* workers that are spawned and whose lambda has not finished
Live == {t \in DOMAIN work1 : work1[t] = "run"} \cup
        {t \in DOMAIN work3 : work3[t] = "run"}

NoAcc == <<0, 0>>

\* the local state of an invocation before its first statement
Fresh ==
    /\ result = <<>>
    /\ chunkSize = 0
    /\ lastValues = <<>>
    /\ prefixSums = <<>>
    /\ threads = <<>>
    /\ si = 0
    /\ ji = 0
    /\ work1 = <<>>
    /\ work3 = <<>>
    /\ acc1 = <<>>
    /\ acc3 = <<>>
    /\ carryAt = <<>>
    /\ offAt = <<>>
    /\ divs = {}

\* a call starts with fresh locals
Enter ==
    /\ result' = <<>>
    /\ chunkSize' = 0
    /\ lastValues' = <<>>
    /\ prefixSums' = <<>>
    /\ threads' = <<>>
    /\ si' = 0
    /\ ji' = 0
    /\ work1' = <<>>
    /\ work3' = <<>>
    /\ acc1' = <<>>
    /\ acc3' = <<>>
    /\ carryAt' = <<>>
    /\ offAt' = <<>>
    /\ divs' = {}

\* no sweep: parallelInclusiveScan is called directly
NoSweep ==
    /\ spc = "off"
    /\ data = <<>>
    /\ hwThreads = 0
    /\ maxK = 0
    /\ k = 0
    /\ baseTime = 0
    /\ bestTime = 0
    /\ bestK = 0
    /\ results = <<>>
    /\ note = FALSE
    /\ calls = <<>>
    /\ baseRuns = 0

InitScan ==
    /\ \E c \in Calls : input = c[1] /\ numThreads = c[2]
    /\ input0 = input
    /\ pc = "entry"
    /\ Fresh
    /\ NoSweep

\* main.cpp:38-44  allocate result; the sequential fallback
Entry ==
    /\ pc = "entry"
    /\ LET n == Size(input)
       IN  IF Fallback(numThreads, n)
           THEN /\ result' = StdInclusiveScan(input, 0, n, Zeros(n), 0)
                /\ pc' = "done"
           ELSE /\ result' = Zeros(n)
                /\ pc' = "chunk"
    /\ UNCHANGED sweepVars
    /\ UNCHANGED <<input, numThreads, chunkSize, lastValues, prefixSums,
                   threads, si, ji, work1, work3, input0, acc1, acc3,
                   carryAt, offAt, divs>>

\* main.cpp:46-48  chunk size, threads, lastValues.  A zero divisor traps and
\* a negative count asks vector for an impossible size: the program ends.
Chunk ==
    /\ pc = "chunk"
    /\ divs' = divs \cup {numThreads}
    /\ IF numThreads <= 0
       THEN /\ pc' = "crash"
            /\ UNCHANGED <<chunkSize, lastValues, threads, si, work1, work3,
                           acc1, acc3, carryAt, offAt>>
       ELSE /\ chunkSize' = ChunkSizeOf(Size(input), numThreads)
            /\ threads' = <<>>
            /\ lastValues' = Zeros(numThreads)
            /\ work1' = [t \in 0..(numThreads - 1) |-> "none"]
            /\ work3' = [t \in 1..(numThreads - 1) |-> "none"]
            /\ acc1' = [t \in 0..(numThreads - 1) |-> NoAcc]
            /\ acc3' = [t \in 1..(numThreads - 1) |-> NoAcc]
            /\ carryAt' = [t \in 0..(numThreads - 1) |-> -1]
            /\ offAt' = [t \in 1..(numThreads - 1) |-> -1]
            /\ si' = 0
            /\ pc' = "spawn1"
    /\ UNCHANGED sweepVars
    /\ UNCHANGED <<input, numThreads, result, prefixSums, ji, input0>>

\* main.cpp:50-51,62  threads.emplace_back(lambda t) for t = 0..numThreads-1
\* (a spawn is held back while MaxLive workers are unfinished)
Spawn1 ==
    /\ pc = "spawn1"
    /\ si < numThreads
    /\ Cardinality(Live) < MaxLive
    /\ threads' = Append(threads, [t |-> si, joined |-> FALSE])
    /\ work1' = [work1 EXCEPT ![si] = "run"]
    /\ si' = si + 1
    /\ IF si + 1 < numThreads
       THEN UNCHANGED <<pc, ji>>
       ELSE pc' = "join1" /\ ji' = 1
    /\ UNCHANGED sweepVars
    /\ UNCHANGED <<input, numThreads, result, chunkSize, lastValues,
                   prefixSums, work3, input0, acc1, acc3, carryAt, offAt, divs>>

\* main.cpp:52-60  the phase-1 lambda of chunk t
Worker1(t) ==
    /\ work1[t] = "run"
    /\ work1' = [work1 EXCEPT ![t] = "fin"]
    /\ LET n == Size(input)
           start == StartOf(t, chunkSize)
           end == EndOf(start, chunkSize, n)
       IN  IF Skipped(start, n)
           THEN UNCHANGED <<input, result, lastValues, acc1, carryAt>>
           ELSE /\ IF ScanDest = "result"
                   THEN /\ result' = StdInclusiveScan(input, start, end, result, start)
                        /\ input' = input
                   ELSE /\ input' = StdInclusiveScan(input, start, end, input, start)
                        /\ result' = result
                /\ lastValues' = [lastValues EXCEPT ![CarrySlot(t)] = result'[end - 1]]
                /\ acc1' = [acc1 EXCEPT ![t] = <<start, end>>]
                /\ carryAt' = [carryAt EXCEPT ![t] = CarrySlot(t)]
    /\ UNCHANGED sweepVars
    /\ UNCHANGED <<numThreads, pc, chunkSize, prefixSums, threads, si, ji,
                   work3, input0, acc3, offAt, divs>>

\* main.cpp:64-66  for (auto& th : threads) th.join();
Join1 ==
    /\ pc = "join1"
    /\ ji <= Len(threads)
    /\ JoinReturns(work1[threads[ji].t])
    /\ threads' = [threads EXCEPT ![ji].joined = TRUE]
    /\ ji' = ji + 1
    /\ pc' = IF ji < Len(threads) THEN "join1" ELSE "clear"
    /\ UNCHANGED sweepVars
    /\ UNCHANGED <<input, numThreads, result, chunkSize, lastValues,
                   prefixSums, si, work1, work3, input0, acc1, acc3, carryAt,
                   offAt, divs>>

\* main.cpp:67  threads.clear(): destroying a joinable thread ends the program
Clear ==
    /\ pc = "clear"
    /\ IF \A p \in 1..Len(threads) : threads[p].joined
       THEN threads' = <<>> /\ pc' = "prefix"
       ELSE pc' = "crash" /\ UNCHANGED threads
    /\ UNCHANGED sweepVars
    /\ UNCHANGED <<input, numThreads, result, chunkSize, lastValues,
                   prefixSums, si, ji, work1, work3, input0, acc1, acc3,
                   carryAt, offAt, divs>>

\* main.cpp:69-71  prefixSums = inclusive scan of lastValues
Prefix ==
    /\ pc = "prefix"
    /\ prefixSums' = StdInclusiveScan(lastValues, 0, numThreads,
                                      Zeros(numThreads), 0)
    /\ si' = 1
    /\ IF 1 < numThreads
       THEN pc' = "spawn3" /\ UNCHANGED ji
       ELSE pc' = "join3" /\ ji' = 1
    /\ UNCHANGED sweepVars
    /\ UNCHANGED <<input, numThreads, result, chunkSize, lastValues, threads,
                   work1, work3, input0, acc1, acc3, carryAt, offAt, divs>>

\* main.cpp:73-74,85  threads.emplace_back(lambda t) for t = 1..numThreads-1
\* (a spawn is held back while MaxLive workers are unfinished)
Spawn3 ==
    /\ pc = "spawn3"
    /\ si < numThreads
    /\ Cardinality(Live) < MaxLive
    /\ threads' = Append(threads, [t |-> si, joined |-> FALSE])
    /\ work3' = [work3 EXCEPT ![si] = "run"]
    /\ si' = si + 1
    /\ IF si + 1 < numThreads
       THEN UNCHANGED <<pc, ji>>
       ELSE pc' = "join3" /\ ji' = 1
    /\ UNCHANGED sweepVars
    /\ UNCHANGED <<input, numThreads, result, chunkSize, lastValues,
                   prefixSums, work1, input0, acc1, acc3, carryAt, offAt, divs>>

\* main.cpp:75-83  the phase-3 lambda of chunk t
Worker3(t) ==
    /\ work3[t] = "run"
    /\ work3' = [work3 EXCEPT ![t] = "fin"]
    /\ LET n == Size(input)
           start == StartOf(t, chunkSize)
           end == EndOf(start, chunkSize, n)
       IN  IF Skipped(start, n)
           THEN UNCHANGED <<result, acc3, offAt>>
           ELSE LET offset == prefixSums[OffsetSlot(t)]
                IN  /\ result' = [i \in DOMAIN result |->
                                    IF start <= i /\ i < end
                                    THEN result[i] + offset
                                    ELSE result[i]]
                    /\ acc3' = [acc3 EXCEPT ![t] = <<start, end>>]
                    /\ offAt' = [offAt EXCEPT ![t] = OffsetSlot(t)]
    /\ UNCHANGED sweepVars
    /\ UNCHANGED <<input, numThreads, pc, chunkSize, lastValues, prefixSums,
                   threads, si, ji, work1, input0, acc1, carryAt, divs>>

\* main.cpp:87-91  join the phase-3 threads, then return result
Join3 ==
    /\ pc = "join3"
    /\ IF ji <= Len(threads)
       THEN /\ JoinReturns(work3[threads[ji].t])
            /\ threads' = [threads EXCEPT ![ji].joined = TRUE]
            /\ ji' = ji + 1
            /\ pc' = IF ji < Len(threads) THEN "join3" ELSE "done"
       ELSE /\ pc' = "done"
            /\ UNCHANGED <<threads, ji>>
    /\ UNCHANGED sweepVars
    /\ UNCHANGED <<input, numThreads, result, chunkSize, lastValues,
                   prefixSums, si, work1, work3, input0, acc1, acc3, carryAt,
                   offAt, divs>>

ScanStep ==
    \/ Entry
    \/ Chunk
    \/ Spawn1
    \/ \E t \in DOMAIN work1 : Worker1(t)
    \/ Join1
    \/ Clear
    \/ Prefix
    \/ Spawn3
    \/ \E t \in DOMAIN work3 : Worker3(t)
    \/ Join3

(***************************************************************************)
(* experiment3: the sweep over K = 1..maxK.                                *)
(***************************************************************************)
InitSweep ==
    /\ data \in SweepInputs
    /\ hwThreads \in HwChoices
    /\ spc = "start"
    /\ maxK = 0
    /\ k = 0
    /\ baseTime = 0
    /\ bestTime = 0
    /\ bestK = 0
    /\ results = <<>>
    /\ note = FALSE
    /\ calls = <<>>
    /\ baseRuns = 0
    /\ input = <<>>
    /\ input0 = <<>>
    /\ numThreads = 0
    /\ pc = "idle"
    /\ Fresh

\* variant: a reported count of 0 is taken as one hardware thread
MaxKOfOne(hw) == Min2(SweepCap, (IF hw = 0 THEN 1 ELSE hw) * SweepMul)

\* main.cpp:140  min(32, (int)hwThreads * 4)
MaxKOf(hw) == Min2(SweepCap, hw * SweepMul)

\* variant: <= for <
BetterOrEqual(time, best) == time <= best

\* main.cpp:169  if (time < bestTime)
Better(time, best) == time < best

\* variant: a K is skipped
NextKSkip(j) == j + 2

\* main.cpp:156  ++k
NextK(j) == j + 1

\* variant: <= for <
NoteTestOrEqual(b, m) == b <= m \div 2

\* main.cpp:184  if (bestK < maxK / 2)
NoteTest(b, m) == b < m \div 2

\* main.cpp:137-154  maxK, the baseline measurement, the initial best
E3Start ==
    /\ spc = "start"
    /\ maxK' = MaxKOf(hwThreads)
    /\ baseTime' \in 1..MaxTime
    /\ bestTime' = DblMax
    /\ bestK' = 1
    /\ results' = <<>>
    /\ k' = 1
    /\ baseRuns' = baseRuns + 1
    /\ spc' = "loop"
    /\ UNCHANGED <<data, hwThreads, note, calls>>
    /\ UNCHANGED scanVars

\* main.cpp:156-159  k <= maxK: call parallelInclusiveScan(data, k); else
\* the loop ends
E3Loop ==
    /\ spc = "loop"
    /\ IF k <= maxK
       THEN /\ spc' = "call"
            /\ calls' = Append(calls, k)
            /\ input' = data
            /\ input0' = data
            /\ numThreads' = k
            /\ pc' = "entry"
            /\ Enter
       ELSE /\ spc' = "end"
            /\ UNCHANGED calls
            /\ UNCHANGED scanVars
    /\ UNCHANGED <<data, hwThreads, maxK, k, baseTime, bestTime, bestK, results,
                   note, baseRuns>>

\* main.cpp:158-172  the call has returned: its time is recorded, the best
\* so far is kept, ++k
E3Record ==
    /\ spc = "call"
    /\ pc = "done"
    /\ \E time \in 1..MaxTime :
          /\ results' = Append(results, <<k, time>>)
          /\ IF Better(time, bestTime)
             THEN bestTime' = time /\ bestK' = k
             ELSE UNCHANGED <<bestTime, bestK>>
    /\ k' = NextK(k)
    /\ spc' = "loop"
    /\ pc' = "idle"
    /\ UNCHANGED <<data, hwThreads, maxK, baseTime, note, calls, baseRuns>>
    /\ UNCHANGED <<input, numThreads, result, chunkSize, lastValues,
                   prefixSums, threads, si, ji, work1, work3, input0, acc1,
                   acc3, carryAt, offAt, divs>>

\* main.cpp:175-188  the summary and, if bestK < maxK / 2, the note
E3End ==
    /\ spc = "end"
    /\ note' = NoteTest(bestK, maxK)
    /\ spc' = "out"
    /\ UNCHANGED <<data, hwThreads, maxK, k, baseTime, bestTime, bestK, results,
                   calls, baseRuns>>
    /\ UNCHANGED scanVars

Init == InitScan

Next == ScanStep

\* one direct call of parallelInclusiveScan
Spec == Init /\ [][Next]_vars

\* the calls on the parallel path, for a range of lengths and thread counts
InitChunks ==
    /\ \E len \in Threshold..(Threshold + MaxExtra), T \in 2..MaxT :
           input = BigInput(len) /\ numThreads = T
    /\ input0 = input
    /\ pc = "entry"
    /\ Fresh
    /\ NoSweep

NextChunks ==
    \/ Entry
    \/ Chunk

\* those calls as far as the chunk size (lines 38-48)
SpecChunks == InitChunks /\ [][NextChunks]_vars

\* the direct calls whose scans are at most one stride long: every short
\* input, and the long input split over the widest thread count
InitFair ==
    /\ InitScan
    /\ (Size(input) < Threshold \/ numThreads > 3)

\* those calls under a scheduler that keeps running some thread that can run
\* (the threads are OS threads; none is ever suspended for good)
SpecFair == InitFair /\ [][Next]_vars /\ WF_vars(Next)

SweepNext ==
    \/ E3Start
    \/ E3Loop
    \/ E3Record
    \/ E3End
    \/ ScanStep

\* one run of experiment3
SpecSweep == InitSweep /\ [][SweepNext]_vars

\* experiment3 on the short input, about to test k <= maxK for k = max(1, maxK):
\* the calls for K = 1..k-1 have been recorded, either all with time 2
\* (b0 = 0) or with time 1 at K = b0 and time 2 elsewhere
InitNote ==
    \E hw \in 0..MaxHw :
        LET m == MaxKOf(hw)
            j == IF m < 1 THEN 1 ELSE m
        IN  \E b0 \in 0..(j - 1) :
                /\ data = In7
                /\ hwThreads = hw
                /\ maxK = m
                /\ k = j
                /\ baseTime = 1
                /\ results = [i \in 1..(j - 1) |-> <<i, IF i = b0 THEN 1 ELSE 2>>]
                /\ bestTime = (IF j = 1 THEN DblMax ELSE IF b0 = 0 THEN 2 ELSE 1)
                /\ bestK = (IF b0 = 0 THEN 1 ELSE b0)
                /\ calls = [i \in 1..(j - 1) |-> i]
                /\ baseRuns = 1
                /\ note = FALSE
                /\ spc = "loop"
                /\ pc = "idle"
                /\ input = (IF j = 1 THEN <<>> ELSE data)
                /\ input0 = input
                /\ numThreads = j - 1
                /\ result = (IF j = 1 THEN <<>>
                             ELSE StdInclusiveScan(data, 0, Size(data),
                                                   Zeros(Size(data)), 0))
                /\ chunkSize = 0
                /\ lastValues = <<>>
                /\ prefixSums = <<>>
                /\ threads = <<>>
                /\ si = 0
                /\ ji = 0
                /\ work1 = <<>>
                /\ work3 = <<>>
                /\ acc1 = <<>>
                /\ acc3 = <<>>
                /\ carryAt = <<>>
                /\ offAt = <<>>
                /\ divs = {}

NextNote ==
    \/ E3Loop
    \/ Entry
    \/ E3Record
    \/ E3End

\* data as generateRandomData can return it, at the shortest length that is
\* scanned in parallel: every element the largest value, and a mix of values
GenInputs ==
    { [i \in 0..(Threshold - 1) |-> RandHi],
      [i \in 0..(Threshold - 1) |-> RandLo + ((37 * i) % RandHi)] }

\* thread counts of the sweep: the fallback, few chunks, the cap
GenThreads == {1, 2, 3, SweepCap}

InitGen ==
    /\ input \in GenInputs
    /\ numThreads \in GenThreads
    /\ input0 = input
    /\ pc = "entry"
    /\ Fresh
    /\ NoSweep

\* one call of parallelInclusiveScan on generated data
SpecGen == InitGen /\ [][Next]_vars

\* the last round of the sweep and the summary (lines 156-188)
SpecNote == InitNote /\ [][NextNote]_vars

(***************************************************************************)
(* Properties.                                                             *)
(***************************************************************************)
\* out is the inclusive scan of in: same indices, out[0] = in[0] and every
\* later element exceeds its predecessor by the input element
IsScanOf(out, in) ==
    /\ DOMAIN out = DOMAIN in
    /\ \A i \in DOMAIN in : out[i] = (IF i = 0 THEN 0 ELSE out[i - 1]) + in[i]

\* the call went past the fallback test onto the parallel path
OnParallelPath == divs # {}

\* f[a] + ... + f[b - 1], by halving the range
RECURSIVE SumRange(_, _, _)
SumRange(f, a, b) ==
    IF b <= a THEN 0
    ELSE IF b = a + 1 THEN f[a]
    ELSE LET mid == (a + b) \div 2
         IN  SumRange(f, a, mid) + SumRange(f, mid, b)

AllFin(w) == \A t \in DOMAIN w : w[t] = "fin"

AllJoined == \A p \in 1..Len(threads) : threads[p].joined

\* half-open index ranges a and b share no index
Apart(a, b) == a[1] >= a[2] \/ b[1] >= b[2] \/ a[2] <= b[1] \/ b[2] <= a[1]

\* C1: for every input and every thread count T >= 1, under every
\* interleaving of the workers, the returned sequence has the input's length
\* and result[i] = input[0] + ... + input[i]: the sequential inclusive scan.
C1_ScanCorrect ==
    (pc = "done" /\ numThreads >= 1) => IsScanOf(result, input0)

\* a call with 3 threads on 1000 elements (3 does not divide 1000) returned
\* from the parallel path
C1_Witness ==
    /\ pc = "done"
    /\ numThreads = 3
    /\ Size(input0) = 1000
    /\ OnParallelPath
    /\ AllFin(work3)

\* C2: the carry-prefix step starts only after every phase-1 worker has
\* finished and been joined; a phase-3 worker exists only after the
\* carry-prefix step; the function returns only after every phase-3 worker has
\* finished and been joined; a phase-1 worker never runs beside the
\* carry-prefix step or a phase-3 worker.
C2_PhaseOrder ==
    /\ pc = "clear" => (Len(threads) = numThreads /\ AllJoined)
    /\ pc \in {"clear", "prefix", "spawn3", "join3"} => AllFin(work1)
    /\ (\E t \in DOMAIN work3 : work3[t] # "none") =>
           (pc \in {"spawn3", "join3", "done"} /\ Size(prefixSums) = numThreads)
    /\ (pc = "done" /\ OnParallelPath) =>
           /\ AllFin(work1)
           /\ AllFin(work3)
           /\ Len(threads) = numThreads - 1
           /\ AllJoined
    /\ \A t \in DOMAIN work1 : work1[t] = "run" =>
           (pc \in {"spawn1", "join1"} /\ \A u \in DOMAIN work3 : work3[u] = "none")

\* the main thread waits in the second join loop while a phase-3 worker runs
C2_Witness ==
    /\ pc = "join3"
    /\ \E t \in DOMAIN work3 : work3[t] = "run"
    /\ AllFin(work1)

\* C3: in each phase worker t accesses result only inside
\* [t*chunkSize, min((t+1)*chunkSize, n)), and the ranges accessed by two
\* workers of the same phase share no index.
C3_DisjointChunks ==
    LET n == Size(input0)
        range(t) == <<t * chunkSize, Min2((t + 1) * chunkSize, n)>>
    IN  /\ \A t \in DOMAIN acc1 : acc1[t] \in {NoAcc, range(t)}
        /\ \A t \in DOMAIN acc3 : acc3[t] \in {NoAcc, range(t)}
        /\ \A t, u \in DOMAIN acc1 : t < u => Apart(acc1[t], acc1[u])
        /\ \A t, u \in DOMAIN acc3 : t < u => Apart(acc3[t], acc3[u])

\* a phase-3 worker has added its offset while another, whose chunk was
\* written in phase 1, is still to run
C3_Witness ==
    \E t, u \in DOMAIN work3 :
        /\ t # u
        /\ acc3[t] # NoAcc
        /\ work3[u] = "run"
        /\ acc1[u] # NoAcc

\* C4: slot t of lastValues is written by phase-1 worker t alone and read by
\* the main thread only once all phase-1 workers are done; prefixSums is
\* written by the main thread alone, before any phase-3 worker exists, and
\* phase-3 worker t reads only prefixSums[t-1].
C4_CarriesRaceFree ==
    /\ \A t \in DOMAIN carryAt : carryAt[t] \in {-1, t}
    /\ \A t, u \in DOMAIN carryAt :
           (t < u /\ carryAt[t] # -1) => carryAt[t] # carryAt[u]
    /\ pc = "prefix" =>
           /\ AllFin(work1)
           /\ \A t \in DOMAIN work3 : work3[t] = "none"
    /\ pc \in {"entry", "chunk", "spawn1", "join1", "clear", "prefix"} =>
           prefixSums = <<>>
    /\ \A t \in DOMAIN work3 : work3[t] # "none" =>
           (pc \notin {"prefix", "idle"} /\ DOMAIN prefixSums = 0..(numThreads - 1))
    /\ \A t \in DOMAIN offAt : offAt[t] \in {-1, t - 1}

\* phase-3 worker 2 has read prefixSums[1] while another phase-3 worker is
\* still to run
C4_Witness ==
    /\ 2 \in DOMAIN offAt
    /\ offAt[2] = 1
    /\ carryAt[1] = 1
    /\ \E u \in DOMAIN work3 : work3[u] = "run"

\* no worker was spawned and the chunk-size division was not evaluated
NothingParallel ==
    /\ divs = {}
    /\ chunkSize = 0
    /\ threads = <<>>
    /\ work1 = <<>>
    /\ work3 = <<>>
    /\ lastValues = <<>>
    /\ prefixSums = <<>>
    /\ pc \in {"entry", "done"}

\* C5: with a thread count <= 1 (0 and negative included) or fewer than 1000
\* elements the call spawns no worker, never evaluates the chunk-size division
\* and returns the sequential scan; the division is only ever evaluated with a
\* divisor >= 2, so it never divides by zero.
C5_Fallback ==
    /\ (numThreads <= 1 \/ Size(input0) < 1000) =>
           /\ NothingParallel
           /\ pc = "done" => IsScanOf(result, input0)
    /\ \A d \in divs : d >= 2
    /\ pc # "crash"

\* a call with thread count 0 on 1000 elements has returned
C5_Witness ==
    /\ pc = "done"
    /\ numThreads = 0
    /\ Size(input0) = 1000

\* C6: a worker whose start index t*chunkSize is >= n accesses neither input
\* nor result in either phase and leaves lastValues[t] at 0; no index outside
\* [0, n) of result and none outside [0, T) of lastValues or prefixSums is
\* accessed; the returned sequence is the sequential scan.
C6_EmptyChunks ==
    LET n == Size(input0)
    IN  /\ \A t \in DOMAIN work1 : t * chunkSize >= n =>
               /\ acc1[t] = NoAcc
               /\ carryAt[t] = -1
               /\ lastValues[t] = 0
               /\ t \in DOMAIN work3 => (acc3[t] = NoAcc /\ offAt[t] = -1)
        /\ \A t \in DOMAIN acc1 :
               0 <= acc1[t][1] /\ acc1[t][1] <= acc1[t][2] /\ acc1[t][2] <= n
        /\ \A t \in DOMAIN acc3 :
               0 <= acc3[t][1] /\ acc3[t][1] <= acc3[t][2] /\ acc3[t][2] <= n
        /\ \A t \in DOMAIN carryAt : carryAt[t] \in -1..(numThreads - 1)
        /\ \A t \in DOMAIN offAt : offAt[t] \in -1..(numThreads - 1)
        /\ (pc = "done" /\ OnParallelPath) => IsScanOf(result, input0)

\* the call has returned from the parallel path and a worker of each phase
\* found its chunk empty
C6_Witness ==
    /\ pc = "done"
    /\ OnParallelPath
    /\ \E t \in DOMAIN work3 :
           /\ t * chunkSize >= Size(input0)
           /\ work1[t] = "fin"
           /\ work3[t] = "fin"

\* C7: for an input of length 0 or 1 and any thread count the call returns a
\* sequence equal to the input, spawns no worker and does not evaluate the
\* chunk-size division.
C7_EmptyAndSingleton ==
    Size(input0) <= 1 =>
        /\ NothingParallel
        /\ pc = "done" => result = input0

\* a call with 33 threads on a one-element input has returned
C7_Witness ==
    /\ pc = "done"
    /\ Size(input0) = 1
    /\ numThreads = 33
    /\ result = input0

\* C8: in every state of an invocation the input equals its value at call
\* time.
C8_InputUnchanged == input = input0

\* both phases have run on a long input and the result differs from the input
C8_Witness ==
    /\ pc = "done"
    /\ OnParallelPath
    /\ AllFin(work3)
    /\ result # input0

Out7 == [i \in 0..6 |-> ((i + 1) * (i + 2)) \div 2]

\* C9 as stated: for input [1,2,3,4,5,6,7] and 3 threads the scan uses chunk
\* size 3 and the chunk ranges [0,3), [3,6), [6,7), and returns
\* [1,3,6,10,15,21,28].
C9_AsStated ==
    (pc = "done" /\ input0 = In7 /\ numThreads = 3) =>
        /\ chunkSize = 3
        /\ DOMAIN acc1 = 0..2
        /\ acc1[0] = <<0, 3>> /\ acc1[1] = <<3, 6>> /\ acc1[2] = <<6, 7>>
        /\ result = Out7

\* C9, amended: for input [1,2,3,4,5,6,7] and 3 threads the input is shorter
\* than 1000, so the call takes the sequential fallback: no chunk size, chunk
\* range, carry or offset is computed; it returns [1,3,6,10,15,21,28].
C9_Amended ==
    (input0 = In7 /\ numThreads = 3) =>
        /\ NothingParallel
        /\ acc1 = <<>> /\ acc3 = <<>>
        /\ pc = "done" => result = Out7

\* the call on [1,2,3,4,5,6,7] with 3 threads has returned
C9_Witness ==
    /\ pc = "done"
    /\ input0 = In7
    /\ numThreads = 3

\* C10: at loop exit results holds exactly maxK entries, entry i being for
\* K = i; bestTime is the least recorded time and bestK the smallest K that
\* recorded it (with no entry, bestTime is still the sentinel above all times).
C10_SweepBest ==
    spc = "end" =>
        /\ Len(results) = maxK
        /\ \A i \in 1..Len(results) : results[i][1] = i
        /\ \A i \in 1..Len(results) : bestTime <= results[i][2]
        /\ maxK >= 1 =>
               /\ bestK \in 1..maxK
               /\ results[bestK][2] = bestTime
               /\ \A i \in 1..(bestK - 1) : results[i][2] > bestTime

\* a sweep over K = 1..4 has ended with the least time recorded twice, by the
\* best K and by a later one
C10_Witness ==
    /\ spc = "end"
    /\ maxK = 4
    /\ Len(results) = 4
    /\ \E i \in 1..4 : i > bestK /\ results[i][2] = bestTime

\* C11: under fair scheduling every invocation terminates: no join waits for
\* ever, no worker is blocked, the call ends in neither a crash nor a
\* deadlock but returns its result.
C11_Terminates == <>(pc = "done")

\* a call on the parallel path with 33 threads has returned
C11_Witness ==
    /\ pc = "done"
    /\ OnParallelPath
    /\ numThreads = 33
    /\ AllJoined

\* C12: in the sweep parallelInclusiveScan(data, K) is called exactly once
\* for each K = 1..maxK, in that order, each call begins only after the one
\* before has returned and been timed, no worker of a call is alive outside
\* it, and the baseline is measured exactly once, before the first call.
C12_SequentialCalls ==
    /\ baseRuns = (IF spc = "start" THEN 0 ELSE 1)
    /\ spc = "start" => calls = <<>>
    /\ \A i \in 1..Len(calls) : calls[i] = i
    /\ spc = "call" =>
           /\ Len(calls) = k
           /\ numThreads = k
           /\ Len(results) = k - 1
           /\ pc = "entry" => Fresh
    /\ spc = "loop" => (Len(calls) = k - 1 /\ Len(results) = k - 1)
    /\ spc \in {"end", "out"} => (Len(calls) = maxK /\ Len(results) = maxK)
    /\ spc \in {"start", "loop", "end", "out"} => (pc = "idle" /\ Live = {})

\* the sweep over 1000 elements has ended after the calls for K = 1, 2, 3, 4
C12_Witness ==
    /\ spc = "out"
    /\ Size(data) = 1000
    /\ calls = <<1, 2, 3, 4>>
    /\ baseRuns = 1

\* C13: on the parallel path chunkSize = ceil(n / T); the non-empty chunks
\* [t*chunkSize, min((t+1)*chunkSize, n)) are chunks 0..m-1 for some m <= T,
\* pairwise disjoint and contiguous with union [0, n), and all of them except
\* possibly the last hold exactly chunkSize elements.
C13_ChunkPartition ==
    LET n == Size(input0)
        T == numThreads
        lo(t) == StartOf(t, chunkSize)
        hi(t) == EndOf(lo(t), chunkSize, n)
        live(t) == ~Skipped(lo(t), n)
    IN  pc = "spawn1" =>
            /\ chunkSize * T >= n
            /\ (chunkSize - 1) * T < n
            /\ \A t \in 0..(T - 1) :
                   /\ lo(t) = t * chunkSize
                   /\ hi(t) = Min2((t + 1) * chunkSize, n)
                   /\ live(t) => (lo(t) < hi(t) /\ hi(t) <= n)
            /\ \A t \in 1..(T - 1) : live(t) =>
                   /\ live(t - 1)
                   /\ lo(t) = hi(t - 1)
                   /\ hi(t - 1) - lo(t - 1) = chunkSize
            /\ \A t, u \in 0..(T - 1) : (t < u /\ live(t) /\ live(u)) =>
                   Apart(<<lo(t), hi(t)>>, <<lo(u), hi(u)>>)
            /\ \E m \in 1..T :
                   /\ \A t \in 0..(T - 1) : live(t) <=> t < m
                   /\ lo(0) = 0
                   /\ hi(m - 1) = n

\* the chunk size has been computed for a call whose last chunk is empty and
\* whose last non-empty chunk is short
C13_Witness ==
    /\ pc = "spawn1"
    /\ (numThreads - 1) * chunkSize >= Size(input0)
    /\ Size(input0) % chunkSize # 0

\* C14: at the phase-1 barrier (lines 64-67 reached, the carry-prefix step
\* not yet run) every non-empty chunk [start, end) holds its local inclusive
\* scan, result[i] = input[start] + ... + input[i], and lastValues[t] =
\* result[end - 1] = the sum of the chunk; a skipped chunk has lastValues[t] = 0.
C14_BarrierState ==
    pc \in {"clear", "prefix"} =>
        /\ Size(lastValues) = numThreads
        /\ \A t \in 0..(numThreads - 1) :
               LET n == Size(input0)
                   start == t * chunkSize
                   end == Min2(start + chunkSize, n)
               IN  IF start >= n
                   THEN lastValues[t] = 0
                   ELSE /\ \A i \in start..(end - 1) :
                               result[i] = (IF i = start THEN 0
                                            ELSE result[i - 1]) + input0[i]
                        /\ lastValues[t] = result[end - 1]
                        /\ lastValues[t] = SumRange(input0, start, end)

\* the barrier is reached with 32 scanned chunks and one skipped chunk
C14_Witness ==
    /\ pc = "prefix"
    /\ numThreads = 33
    /\ Size(input0) = 1024
    /\ lastValues[31] = SumRange(input0, 992, 1024)
    /\ lastValues[31] # 0
    /\ lastValues[32] = 0

\* C15: after the carry-prefix step prefixSums has length T and prefixSums[t]
\* is the sum of the input elements of chunks 0..t, i.e. of
\* input[0 .. min((t+1)*chunkSize, n) - 1]; the offset a phase-3 worker adds to
\* a non-empty chunk t >= 1 is prefixSums[t-1], the sum of input[0 .. t*chunkSize - 1].
C15_CarryPrefix ==
    LET n == Size(input0)
        T == numThreads
        lo(t) == Min2(t * chunkSize, n)
    IN  (OnParallelPath /\ pc \in {"spawn3", "join3", "done"}) =>
            /\ Size(prefixSums) = T
            /\ \A t \in 0..(T - 1) :
                   prefixSums[t] = (IF t = 0 THEN 0 ELSE prefixSums[t - 1])
                                       + SumRange(input0, lo(t), lo(t + 1))
            /\ ((pc = "spawn3" /\ si = 1) \/ pc = "done") =>
                   \A t \in 0..(T - 1) :
                       prefixSums[t] = SumRange(input0, 0, lo(t + 1))
            /\ \A t \in DOMAIN work3 :
                   (work3[t] = "fin" /\ t * chunkSize < n) =>
                       /\ offAt[t] = t - 1
                       /\ prefixSums[offAt[t]] = prefixSums[t] - lastValues[t]
                       /\ \A i \in lo(t)..(lo(t + 1) - 1) :
                              result[i] = (IF i = lo(t) THEN prefixSums[t - 1]
                                           ELSE result[i - 1]) + input0[i]

\* the carries of 32 chunks and a skipped one have been summed and a worker
\* has added a non-zero offset
C15_Witness ==
    /\ pc = "join3"
    /\ numThreads = 33
    /\ Size(input0) = 1024
    /\ prefixSums[32] = prefixSums[31]
    /\ prefixSums[32] = SumRange(input0, 0, 1024)
    /\ \E t \in DOMAIN work3 :
           work3[t] = "fin" /\ offAt[t] = t - 1 /\ prefixSums[t - 1] # 0

\* index i lies in exactly one of the ranges recorded in acc / in none
OnceIn(acc, i) == Cardinality({t \in DOMAIN acc : acc[t][1] <= i /\ i < acc[t][2]}) = 1

NoneIn(acc, i) == \A t \in DOMAIN acc : ~(acc[t][1] <= i /\ i < acc[t][2])

\* the ranges the workers of a finished phase went through
C16_Footprints ==
    (OnParallelPath /\ pc \in {"clear", "done"}) =>
        /\ \A t \in DOMAIN work1 : work1[t] = "fin"
        /\ \A i \in DOMAIN result : OnceIn(acc1, i)
        /\ 0 \notin DOMAIN work3
        /\ pc = "clear" => \A t \in DOMAIN work3 : work3[t] = "none"
        /\ pc = "done" =>
               /\ \A t \in DOMAIN work3 : work3[t] = "fin"
               /\ \A i \in DOMAIN result :
                      IF i >= chunkSize THEN OnceIn(acc3, i) ELSE NoneIn(acc3, i)

\* a step taken after the phase-1 barrier leaves chunk 0 of result alone
C16_ChunkZeroKept ==
    (OnParallelPath /\ pc \in {"clear", "prefix", "spawn3", "join3"}) =>
        \A i \in DOMAIN result : i < chunkSize => result'[i] = result[i]

\* C16: on the parallel path every output index is written by exactly one
\* phase-1 worker, which runs once; every index i >= chunkSize has the offset
\* added by exactly one phase-3 worker, which runs once; no phase-3 worker
\* exists for chunk 0 and result[0 .. chunkSize-1] does not change between the
\* phase-1 barrier and the return.
C16_WrittenOnce == [](C16_Footprints) /\ [][C16_ChunkZeroKept]_vars

\* a call with three chunks has returned
C16_Witness ==
    /\ pc = "done"
    /\ OnParallelPath
    /\ numThreads = 3
    /\ Size(input0) = 1000
    /\ acc3[1] = <<334, 668>>
    /\ acc3[2] = <<668, 1000>>
    /\ result[333] = SumRange(input0, 0, 334)
    /\ result[334] # SumRange(input0, 334, 335)

\* C17: maxK = min(32, hardwareConcurrency * 4) never exceeds 32, and the note
\* is emitted exactly when 2 * bestK < maxK: the integer test
\* bestK < maxK / 2 agrees with the exact half for every maxK that occurs.
C17_NoteRule ==
    /\ maxK <= 32
    /\ maxK = Min2(32, hwThreads * 4)
    /\ spc \in {"end", "out"} => (NoteTest(bestK, maxK) <=> 2 * bestK < maxK)
    /\ spc = "out" => (note <=> 2 * bestK < maxK)
    /\ spc # "out" => ~note

\* the summary has been printed with the best K just under half of the cap
C17_Witness ==
    /\ spc = "out"
    /\ hwThreads > 8
    /\ maxK = 32
    /\ bestK = 15
    /\ note

\* C18: when hardware_concurrency() reports 0, maxK = 0 and the loop body
\* never runs: parallelInclusiveScan is not called, no (K, time) entry is
\* recorded, bestK stays 1 and bestTime stays the maximum double.  At the end
\* of the loop bestK is in 1..max(1, maxK), and it names a recorded entry
\* exactly when maxK >= 1.
C18_EmptySweep ==
    /\ (hwThreads = 0 /\ spc # "start") =>
           /\ maxK = 0
           /\ spc # "call"
           /\ pc = "idle"
           /\ calls = <<>>
           /\ results = <<>>
           /\ bestK = 1
           /\ bestTime = DblMax
    /\ spc \in {"end", "out"} =>
           /\ bestK \in 1..(IF maxK < 1 THEN 1 ELSE maxK)
           /\ (\E i \in 1..Len(results) : results[i][1] = bestK) <=> maxK >= 1
           /\ maxK >= 1 => (bestK <= Len(results) /\ results[bestK] = <<bestK, bestTime>>)

\* the summary is reached although no call was made
C18_Witness ==
    /\ spc = "out"
    /\ hwThreads = 0
    /\ maxK = 0
    /\ bestK = 1
    /\ bestTime = DblMax
    /\ Len(results) = 0

\* C19: for generated data (every element in 1..100, n elements) every value
\* stored in result, lastValues or prefixSums during a call lies in
\* 0..100*n, which for n <= 10,000,000 is at most 1,000,000,000 and fits in a
\* signed 32-bit int: no sum overflows.
C19_FitsInt ==
    LET n == Size(input0)
        InRange(f) == \A j \in DOMAIN f : 0 <= f[j] /\ f[j] <= RandHi * n
    IN  (\A i \in DOMAIN input0 : RandLo <= input0[i] /\ input0[i] <= RandHi) =>
            /\ InRange(result)
            /\ InRange(lastValues)
            /\ InRange(prefixSums)
            /\ n <= MaxSize => RandHi * n <= 1000000000
            /\ RandHi * MaxSize <= 1000000000
            /\ 1000000000 <= IntMax

\* a call over 32 chunks has returned and its last element attains 100 * n
C19_Witness ==
    /\ pc = "done"
    /\ OnParallelPath
    /\ numThreads = 32
    /\ Size(input0) = 1000
    /\ result[999] = 100000
    /\ prefixSums[31] = 100000
    /\ lastValues[31] = 800

====
